---- MODULE Spec2Model ----
(***************************************************************************)
(* Model of the music plugin of nanobot (src/src/bot/plugins/music.rs):    *)
(* the shared MusicState (queue map, status map, song_completion index),   *)
(* the voice gateway's per-server connection, the two mutexes (the state   *)
(* lock of Music::state and the connection lock context.conn), and the     *)
(* command handlers join, leave, play, queue, skip and status, each cut    *)
(* into steps at its lock acquisitions and blocking calls.                 *)
(*                                                                         *)
(* HashMap / BTreeMap values are functions whose DOMAIN is the key set.    *)
(* Option<T> is a sequence of length 0 (None) or 1 (Some).                 *)
(* The req! macro around context.say is taken to yield the sent message;   *)
(* outbound messages carry no state.                                       *)
(***************************************************************************)
EXTENDS Integers, Sequences, FiniteSets, TLC

\* ---------------------------------------------------------------- bounds
\* MaxRequests: requests held at once (queued or playing, all servers); a
\* play command with a URL is accepted below it.
\* MaxTime: the clock readings of the driver are 1..MaxTime; no completion
\* time lies beyond it.
\* MaxVotesRequired: skip_votes_required of a new record is 0..MaxVotesRequired.
\* MaxPerKey: servers under one completion time.
\* MaxSecs: the durations given to get_duration are 0..MaxSecs seconds.
MaxRequests == 2
MaxTime == 2
MaxVotesRequired == 2
MaxPerKey == 2
MaxSecs == 3660

Servers == {"s1", "s2"}
Users == {"u1", "u2", "u3"}
Threads == {"t1", "t2"}
Handler == "t1"
OneServer == {"s1"}
TwoUsers == {"u1", "u2"}
NoThread == "none"
EmptyUrl == ""
Urls == {EmptyUrl, "a"}
Times == 1..MaxTime
Ops == {"join", "leave", "play", "queue", "skip", "status"}

VARIABLES queue, status, song_completion, voice, stateLock, connLock,
          pc, call, vote, had_status, result, effects, snap, secs, text

vars == <<queue, status, song_completion, voice, stateLock, connLock,
          pc, call, vote, had_status, result, effects, snap, secs, text>>

\* A duration and the string get_duration made of it (None before the call).
formatting == <<secs, text>>

musicState == <<queue, status, song_completion>>
locks == <<stateLock, connLock>>
locals == <<vote, had_status>>

\* ------------------------------------------------------- map operations
EmptyMap == [k \in {} |-> k]
MapInsert(m, k, v) == [x \in (DOMAIN m) \cup {k} |-> IF x = k THEN v ELSE m[x]]
MapRemove(m, k) == [x \in (DOMAIN m) \ {k} |-> m[x]]
OrInsert(m, k, v) == IF k \in DOMAIN m THEN m ELSE MapInsert(m, k, v)

None == <<>>
Some(x) == <<x>>

\* ------------------------------------------------------------ data types
DurationOf(url) == IF url = "a" THEN 1 ELSE IF url = "z" THEN 0 ELSE 2

MusicRequest(user, url) ==
    [requester |-> user, url |-> url, duration |-> DurationOf(url)]

MusicPlaying(req, required, now) ==
    [req |-> req, skip_votes_required |-> required,
     skip_votes |-> <<>>, started_at |-> now]

\* format!("{:02}", n) for n < 100: the two decimal digits of n.
Pad2(n) == <<n \div 10, n % 10>>

\* line 9-14: the string "MM:SS", as the digits on either side of the colon.
get_duration(d) ==
    [minutes |-> Pad2((d \div 60) % 60), seconds |-> Pad2(d % 60)]

Contains(seq, x) == \E i \in 1..Len(seq) : seq[i] = x

Position(seq, x) == CHOOSE i \in 1..Len(seq) :
                        seq[i] = x /\ \A j \in 1..(i - 1) : seq[j] # x

RemoveAt(seq, i) == SubSeq(seq, 1, i - 1) \o SubSeq(seq, i + 1, Len(seq))

IsPlaying(s) == s \in DOMAIN status /\ status[s] # None

\* ---------------------------------------------------- thread-local state
NoCall == [op |-> "none", server |-> "none", user |-> "none",
           url |-> EmptyUrl, in_voice |-> FALSE]
NoResult == [outcome |-> "none", votes |-> 0, required |-> 0]
NoEffects == [connects |-> 0, resets |-> 0, stops |-> 0, removals |-> 0]
NoSnap == [taken |-> FALSE, queue |-> EmptyMap, status |-> EmptyMap,
           song_completion |-> EmptyMap]
Snapshot == [taken |-> TRUE, queue |-> queue, status |-> status,
             song_completion |-> song_completion]

Outcome(o) == [outcome |-> o, votes |-> 0, required |-> 0]

AllIdle == \A t \in Threads : pc[t] = "idle"

Init ==
    /\ queue = EmptyMap
    /\ status = EmptyMap
    /\ song_completion = EmptyMap
    /\ voice = [s \in Servers |-> FALSE]
    /\ stateLock = NoThread
    /\ connLock = NoThread
    /\ pc = [t \in Threads |-> "idle"]
    /\ call = [t \in Threads |-> NoCall]
    /\ vote = [t \in Threads |-> "none"]
    /\ had_status = [t \in Threads |-> FALSE]
    /\ result = [t \in Threads |-> NoResult]
    /\ effects = [t \in Threads |-> NoEffects]
    /\ snap = [t \in Threads |-> NoSnap]
    /\ secs = 0
    /\ text = None

\* A handler is entered with its arguments; seq = TRUE is the scheduling in
\* which commands are handled one at a time.
Enter(t, c, seq) ==
    /\ pc[t] = "idle"
    /\ seq => AllIdle
    /\ call' = [call EXCEPT ![t] = c]
    /\ snap' = [snap EXCEPT ![t] = IF seq THEN Snapshot ELSE NoSnap]

\* The handler has returned: its frame is dropped.
Return(t) ==
    /\ pc[t] = "done"
    /\ pc' = [pc EXCEPT ![t] = "idle"]
    /\ call' = [call EXCEPT ![t] = NoCall]
    /\ vote' = [vote EXCEPT ![t] = "none"]
    /\ had_status' = [had_status EXCEPT ![t] = FALSE]
    /\ result' = [result EXCEPT ![t] = NoResult]
    /\ effects' = [effects EXCEPT ![t] = NoEffects]
    /\ snap' = [snap EXCEPT ![t] = NoSnap]
    /\ UNCHANGED <<musicState, voice, locks>>
    /\ UNCHANGED formatting

Finish(t, r) ==
    /\ pc' = [pc EXCEPT ![t] = "done"]
    /\ result' = [result EXCEPT ![t] = r]

\* The command's channel does not resolve to a server (or, for join, no
\* channel is mentioned and the author is in none): a reply, then return.
Unresolved(t, op, seq) ==
    /\ Enter(t, [NoCall EXCEPT !.op = op], seq)
    /\ Finish(t, Outcome("CouldNotFindServer"))
    /\ UNCHANGED <<musicState, voice, locks, locals, effects>>
    /\ UNCHANGED formatting

\* ------------------------------------------------------------------ join
\* Variant: the status entry is not looked at, every join connects.
JoinAlways(t, s, seq) ==
    /\ Enter(t, [NoCall EXCEPT !.op = "join", !.server = s], seq)
    /\ stateLock = NoThread
    /\ stateLock' = t
    /\ pc' = [pc EXCEPT ![t] = "join_conn"]
    /\ UNCHANGED <<musicState, voice, connLock, locals, result, effects>>
    /\ UNCHANGED formatting

\* line 86-125: the command arrives for server s; take the state lock, test
\* status.contains_key.
Join(t, s, seq) ==
    /\ Enter(t, [NoCall EXCEPT !.op = "join", !.server = s], seq)
    /\ stateLock = NoThread
    /\ stateLock' = t
    /\ pc' = [pc EXCEPT ![t] =
                IF s \in DOMAIN status THEN "join_already" ELSE "join_conn"]
    /\ UNCHANGED <<musicState, voice, connLock, locals, result, effects>>
    /\ UNCHANGED formatting

\* line 122-124: the reply is sent with the state lock held, then return.
JoinAlready(t) ==
    /\ pc[t] = "join_already"
    /\ stateLock' = NoThread
    /\ Finish(t, Outcome("AlreadyConnected"))
    /\ UNCHANGED <<musicState, voice, connLock, call, locals, effects, snap>>
    /\ UNCHANGED formatting

\* line 128: take the connection lock, the state lock still held.
JoinConnLock(t) ==
    /\ pc[t] = "join_conn"
    /\ connLock = NoThread
    /\ connLock' = t
    /\ pc' = [pc EXCEPT ![t] = "join_connect"]
    /\ UNCHANGED <<musicState, voice, stateLock, call, locals, result,
                   effects, snap>>
    /\ UNCHANGED formatting

\* line 131-144: connect, release the connection lock, insert the status
\* and queue entries, release the state lock.
JoinConnect(t) ==
    LET s == call[t].server IN
    /\ pc[t] = "join_connect"
    /\ voice' = [voice EXCEPT ![s] = TRUE]
    /\ connLock' = NoThread
    /\ status' = MapInsert(status, s, None)
    /\ queue' = OrInsert(queue, s, <<>>)
    /\ stateLock' = NoThread
    /\ effects' = [effects EXCEPT ![t].connects = @ + 1]
    /\ Finish(t, Outcome("Joined"))
    /\ UNCHANGED <<song_completion, call, locals, snap>>
    /\ UNCHANGED formatting

\* ----------------------------------------------------------------- leave
\* Variant: the connection lock is kept while the state lock is awaited.
LeaveKeepsConn(t, s, seq) ==
    /\ Enter(t, [NoCall EXCEPT !.op = "leave", !.server = s], seq)
    /\ connLock = NoThread
    /\ connLock' = t
    /\ voice' = [voice EXCEPT ![s] = FALSE]
    /\ pc' = [pc EXCEPT ![t] = "leave_lock"]
    /\ UNCHANGED <<musicState, stateLock, locals, result, effects>>
    /\ UNCHANGED formatting

\* line 147-162: the command arrives; drop the voice connection under the
\* connection lock.
Leave(t, s, seq) ==
    /\ Enter(t, [NoCall EXCEPT !.op = "leave", !.server = s], seq)
    /\ connLock = NoThread
    /\ voice' = [voice EXCEPT ![s] = FALSE]
    /\ pc' = [pc EXCEPT ![t] = "leave_lock"]
    /\ UNCHANGED <<musicState, locks, locals, result, effects>>
    /\ UNCHANGED formatting

\* Variant: only the status entry is removed, the queue entry stays.
LeaveLockKeepsQueue(t) ==
    /\ pc[t] = "leave_lock"
    /\ stateLock = NoThread
    /\ status' = MapRemove(status, call[t].server)
    /\ Finish(t, Outcome("Left"))
    /\ UNCHANGED <<queue, song_completion, voice, locks, call, locals,
                   effects, snap>>
    /\ UNCHANGED formatting

\* line 164-171: remove the status and queue entries under the state lock.
LeaveLock(t) ==
    LET s == call[t].server IN
    /\ pc[t] = "leave_lock"
    /\ stateLock = NoThread
    /\ status' = MapRemove(status, s)
    /\ queue' = MapRemove(queue, s)
    /\ Finish(t, Outcome("Left"))
    /\ UNCHANGED <<song_completion, voice, locks, call, locals, effects, snap>>
    /\ UNCHANGED formatting

\* ------------------------------------------------------------------ play
AfterEntry(url) == IF url = EmptyUrl THEN "done" ELSE "play_download"

\* The requests held by the state, queued or playing.
Requests ==
    LET RECURSIVE Sum(_)
        Sum(S) == IF S = {} THEN 0
                  ELSE LET x == CHOOSE y \in S : TRUE IN
                       (IF x \in DOMAIN queue THEN Len(queue[x]) ELSE 0)
                       + (IF x \in DOMAIN status THEN Len(status[x]) ELSE 0)
                       + Sum(S \ {x})
    IN Sum(Servers)

\* line 175-234: the command arrives; take the state lock; when the server
\* has no status entry look for the author's voice channel (inv: the author
\* is in one; find_voice_user is not consulted otherwise).  Without a
\* gateway call the queue entry is made and the lock released in this step.
Play(t, s, u, url, inv, seq) ==
    /\ url # EmptyUrl => Requests < MaxRequests
    /\ s \in DOMAIN status => ~inv
    /\ Enter(t, [op |-> "play", server |-> s, user |-> u, url |-> url,
                 in_voice |-> inv], seq)
    /\ stateLock = NoThread
    /\ IF s \notin DOMAIN status /\ inv
       THEN /\ stateLock' = t
            /\ pc' = [pc EXCEPT ![t] = "play_conn"]
            /\ UNCHANGED <<queue, result>>
       ELSE IF s \notin DOMAIN status /\ url = EmptyUrl
       THEN /\ stateLock' = t
            /\ pc' = [pc EXCEPT ![t] = "play_nothing"]
            /\ UNCHANGED <<queue, result>>
       ELSE /\ queue' = OrInsert(queue, s, <<>>)
            /\ stateLock' = NoThread
            /\ pc' = [pc EXCEPT ![t] = AfterEntry(url)]
            /\ result' = [result EXCEPT ![t] =
                            IF url = EmptyUrl THEN Outcome("NoUrl") ELSE @]
    /\ UNCHANGED <<status, song_completion, voice, connLock, locals, effects>>
    /\ UNCHANGED formatting

\* Variant: the queue entry is made before "Nothing to queue" is sent.
PlayNothingEnsures(t) ==
    /\ pc[t] = "play_nothing"
    /\ stateLock' = NoThread
    /\ queue' = OrInsert(queue, call[t].server, <<>>)
    /\ Finish(t, Outcome("NothingToDo"))
    /\ UNCHANGED <<status, song_completion, voice, connLock, call, locals,
                   effects, snap>>
    /\ UNCHANGED formatting

\* line 218-222: "Nothing to queue" is sent with the state lock held.
PlayNothing(t) ==
    /\ pc[t] = "play_nothing"
    /\ stateLock' = NoThread
    /\ Finish(t, Outcome("NothingToDo"))
    /\ UNCHANGED <<musicState, voice, connLock, call, locals, effects, snap>>
    /\ UNCHANGED formatting

\* line 201: take the connection lock, the state lock still held.
PlayConnLock(t) ==
    /\ pc[t] = "play_conn"
    /\ connLock = NoThread
    /\ connLock' = t
    /\ pc' = [pc EXCEPT ![t] = "play_connect"]
    /\ UNCHANGED <<musicState, voice, stateLock, call, locals, result,
                   effects, snap>>
    /\ UNCHANGED formatting

\* line 202-240: connect unless the gateway already has a channel, release
\* the connection lock, make the queue entry, release the state lock.
PlayConnect(t) ==
    LET s == call[t].server
        url == call[t].url IN
    /\ pc[t] = "play_connect"
    /\ voice' = [voice EXCEPT ![s] = TRUE]
    /\ effects' = [effects EXCEPT ![t].connects =
                      IF voice[s] THEN @ ELSE @ + 1]
    /\ connLock' = NoThread
    /\ queue' = OrInsert(queue, s, <<>>)
    /\ stateLock' = NoThread
    /\ pc' = [pc EXCEPT ![t] = AfterEntry(url)]
    /\ result' = [result EXCEPT ![t] =
                    IF url = EmptyUrl THEN Outcome("NoUrl") ELSE @]
    /\ UNCHANGED <<status, song_completion, call, locals, snap>>
    /\ UNCHANGED formatting

\* line 242-258: youtube_dl::download runs with no lock held; it yields a
\* response or an error.
PlayDownload(t, ok) ==
    /\ pc[t] = "play_download"
    /\ IF ok THEN /\ pc' = [pc EXCEPT ![t] = "play_lock2"]
                  /\ UNCHANGED result
             ELSE Finish(t, Outcome("DownloadFailed"))
    /\ UNCHANGED <<musicState, voice, locks, call, locals, effects, snap>>
    /\ UNCHANGED formatting

\* line 264-272: take the state lock again, read status.contains_key.
PlayLock2(t) ==
    /\ pc[t] = "play_lock2"
    /\ stateLock = NoThread
    /\ stateLock' = t
    /\ had_status' = [had_status EXCEPT ![t] = call[t].server \in DOMAIN status]
    /\ pc' = [pc EXCEPT ![t] = "play_conn2"]
    /\ UNCHANGED <<musicState, voice, connLock, call, vote, result,
                   effects, snap>>
    /\ UNCHANGED formatting

\* Variant: the status entry is not looked at.
add_to_song_completion_in_voice(t, in_voice) == in_voice

\* line 271-286: !status && in_voice.
add_to_song_completion(t, in_voice) == ~had_status[t] /\ in_voice

\* Variant: the request is put at the front of the queue.
PushFront(entry, s, req) == [entry EXCEPT ![s] = <<req>> \o @]

\* Variant: the request takes the place of the queued ones.
PushReplace(entry, s, req) == [entry EXCEPT ![s] = <<req>>]

\* line 291-298: entry.push(MusicRequest {..}).
Push(entry, s, req) == [entry EXCEPT ![s] = Append(@, req)]

\* line 275-312: under the connection lock read the gateway's current
\* channel, release it; push the request; insert the immediate key.
PlayEnqueue(t) ==
    LET s == call[t].server
        entry == OrInsert(queue, s, <<>>) IN
    /\ pc[t] = "play_conn2"
    /\ connLock = NoThread
    /\ queue' = Push(entry, s, MusicRequest(call[t].user, call[t].url))
    /\ song_completion' = IF add_to_song_completion(t, voice[s])
                          THEN MapInsert(song_completion, 0, <<s>>)
                          ELSE song_completion
    /\ stateLock' = NoThread
    /\ Finish(t, Outcome("Queued"))
    /\ UNCHANGED <<status, voice, connLock, call, locals, effects, snap>>
    /\ UNCHANGED formatting

\* ------------------------------------------------------------------ skip
\* Variant: the threshold is compared with > instead of >=.
SkipVoteOfStrict(current, u) ==
    IF current.req.requester = u THEN "VoterSkipped"
    ELSE IF ~Contains(current.skip_votes, u)
         THEN IF Len(current.skip_votes) + 1 > current.skip_votes_required
              THEN "Passed" ELSE "Voted"
         ELSE "AlreadyVoted"

\* Variant: the vote list is consulted before the requester.
SkipVoteOfVotesFirst(current, u) ==
    IF ~Contains(current.skip_votes, u)
    THEN IF Len(current.skip_votes) + 1 >= current.skip_votes_required
         THEN "Passed" ELSE "Voted"
    ELSE IF current.req.requester = u THEN "VoterSkipped"
    ELSE "AlreadyVoted"

\* line 390-403: the vote decided on the playing record.
SkipVoteOf(current, u) ==
    IF current.req.requester = u THEN "VoterSkipped"
    ELSE IF ~Contains(current.skip_votes, u)
         THEN IF Len(current.skip_votes) + 1 >= current.skip_votes_required
              THEN "Passed" ELSE "Voted"
         ELSE "AlreadyVoted"

\* Variant: the vote is pushed without looking for an earlier one.
SkipVotesAfterAlways(current, u) ==
    IF current.req.requester # u
    THEN Append(current.skip_votes, u)
    ELSE current.skip_votes

\* Variant: the requester's vote is pushed like any other.
SkipVotesAfterAnyone(current, u) ==
    IF ~Contains(current.skip_votes, u)
    THEN Append(current.skip_votes, u)
    ELSE current.skip_votes

\* Variant: every vote is pushed, counted before or not.
SkipVotesAfterPushAll(current, u) == Append(current.skip_votes, u)

\* line 393-394: the record after the vote check.
SkipVotesAfter(current, u) ==
    IF current.req.requester # u /\ ~Contains(current.skip_votes, u)
    THEN Append(current.skip_votes, u)
    ELSE current.skip_votes

AfterVote(v) == CASE v = "VoterSkipped" -> "skip_reset"
                  [] v = "Passed" -> "skip_reset"
                  [] v = "Voted" -> "skip_voted"
                  [] OTHER -> "done"

\* line 369-423: the command arrives; first critical section.
Skip(t, s, u, seq) ==
    /\ Enter(t, [NoCall EXCEPT !.op = "skip", !.server = s, !.user = u], seq)
    /\ stateLock = NoThread
    /\ IF IsPlaying(s)
       THEN LET current == status[s][1]
                v == SkipVoteOf(current, u) IN
            /\ status' = [status EXCEPT ![s] =
                  Some([current EXCEPT !.skip_votes = SkipVotesAfter(current, u)])]
            /\ vote' = [vote EXCEPT ![t] = v]
            /\ pc' = [pc EXCEPT ![t] = AfterVote(v)]
            /\ result' = [result EXCEPT ![t] =
                  IF v = "AlreadyVoted" THEN Outcome("AlreadyVoted") ELSE @]
            /\ UNCHANGED stateLock
       ELSE /\ stateLock' = t
            /\ pc' = [pc EXCEPT ![t] = "skip_no"]
            /\ UNCHANGED <<status, vote, result>>
    /\ UNCHANGED <<queue, song_completion, voice, connLock, had_status,
                   effects>>
    /\ UNCHANGED formatting

\* Variant: the status is reset although nothing is playing.
SkipNoResets(t) ==
    /\ pc[t] = "skip_no"
    /\ stateLock' = NoThread
    /\ status' = MapInsert(status, call[t].server, None)
    /\ Finish(t, Outcome("NoSongPlaying"))
    /\ UNCHANGED <<queue, song_completion, voice, connLock, call, locals,
                   effects, snap>>
    /\ UNCHANGED formatting

\* line 405-413, 448-456: "No song is currently playing" is sent with the
\* state lock held, then return.
SkipNo(t) ==
    /\ pc[t] = "skip_no"
    /\ stateLock' = NoThread
    /\ Finish(t, Outcome("NoSongPlaying"))
    /\ UNCHANGED <<musicState, voice, connLock, call, locals, effects, snap>>
    /\ UNCHANGED formatting

\* Variant: the second critical section leaves the playing record.
SkipResetKeeps(t) ==
    /\ pc[t] = "skip_reset"
    /\ stateLock = NoThread
    /\ effects' = [effects EXCEPT ![t].resets = @ + 1]
    /\ pc' = [pc EXCEPT ![t] = "skip_stop"]
    /\ UNCHANGED <<musicState, voice, locks, call, locals, result, snap>>
    /\ UNCHANGED formatting

\* line 425-427, 470-472: second critical section, status reset.
SkipReset(t) ==
    /\ pc[t] = "skip_reset"
    /\ stateLock = NoThread
    /\ status' = MapInsert(status, call[t].server, None)
    /\ effects' = [effects EXCEPT ![t].resets = @ + 1]
    /\ pc' = [pc EXCEPT ![t] = "skip_stop"]
    /\ UNCHANGED <<queue, song_completion, voice, locks, call, locals,
                   result, snap>>
    /\ UNCHANGED formatting

\* line 429-436, 474-481: voice.stop() under the connection lock.
SkipStop(t) ==
    /\ pc[t] = "skip_stop"
    /\ connLock = NoThread
    /\ effects' = [effects EXCEPT ![t].stops = @ + 1]
    /\ pc' = [pc EXCEPT ![t] = "skip_remove"]
    /\ UNCHANGED <<musicState, voice, locks, call, locals, result, snap>>
    /\ UNCHANGED formatting

\* line 490-499: in ascending key order, remove the server from the first
\* list that holds it, then stop.
RECURSIVE RemoveFirst(_, _, _)
RemoveFirst(index, keys, s) ==
    IF keys = {} THEN index
    ELSE LET k == CHOOSE x \in keys : \A y \in keys : x <= y IN
         IF Contains(index[k], s)
         THEN [index EXCEPT ![k] = RemoveAt(@, Position(@, s))]
         ELSE RemoveFirst(index, keys \ {k}, s)

\* line 487-500: third critical section.
SkipRemove(t) ==
    /\ pc[t] = "skip_remove"
    /\ stateLock = NoThread
    /\ song_completion' =
           RemoveFirst(song_completion, DOMAIN song_completion, call[t].server)
    /\ effects' = [effects EXCEPT ![t].removals = @ + 1]
    /\ Finish(t, Outcome(IF vote[t] = "Passed" THEN "VotePassed"
                                               ELSE "RequesterSkip"))
    /\ UNCHANGED <<queue, status, voice, locks, call, locals, snap>>
    /\ UNCHANGED formatting

\* line 441-467: the tally is read back in a critical section of its own.
SkipVoted(t) ==
    LET s == call[t].server IN
    /\ pc[t] = "skip_voted"
    /\ stateLock = NoThread
    /\ IF IsPlaying(s)
       THEN /\ Finish(t, [outcome |-> "VoteRegistered",
                          votes |-> Len(status[s][1].skip_votes),
                          required |-> status[s][1].skip_votes_required])
            /\ UNCHANGED stateLock
       ELSE /\ stateLock' = t
            /\ pc' = [pc EXCEPT ![t] = "skip_no"]
            /\ UNCHANGED result
    /\ UNCHANGED <<musicState, voice, connLock, call, locals, effects, snap>>
    /\ UNCHANGED formatting

\* ----------------------------------------------------------------- queue
\* line 315-366: the command arrives; the listing is built under the state
\* lock.
QueueCmd(t, s, seq) ==
    /\ Enter(t, [NoCall EXCEPT !.op = "queue", !.server = s], seq)
    /\ stateLock = NoThread
    /\ IF s \in DOMAIN queue
       THEN /\ Finish(t, Outcome(IF queue[s] = <<>> THEN "EmptyQueue"
                                                     ELSE "Listed"))
            /\ UNCHANGED stateLock
       ELSE /\ stateLock' = t
            /\ pc' = [pc EXCEPT ![t] = "queue_none"]
            /\ UNCHANGED result
    /\ UNCHANGED <<musicState, voice, connLock, locals, effects>>
    /\ UNCHANGED formatting

\* line 335-339: "No songs are queued" is sent with the state lock held.
QueueNone(t) ==
    /\ pc[t] = "queue_none"
    /\ stateLock' = NoThread
    /\ Finish(t, Outcome("EmptyQueue"))
    /\ UNCHANGED <<musicState, voice, connLock, call, locals, effects, snap>>
    /\ UNCHANGED formatting

\* ---------------------------------------------------------------- status
\* line 503-542: the command arrives; elapsed and remaining are computed
\* under the state lock.
StatusCmd(t, s, seq) ==
    /\ Enter(t, [NoCall EXCEPT !.op = "status", !.server = s], seq)
    /\ stateLock = NoThread
    /\ IF IsPlaying(s)
       THEN /\ Finish(t, Outcome("Playing"))
            /\ UNCHANGED stateLock
       ELSE /\ stateLock' = t
            /\ pc' = [pc EXCEPT ![t] = "status_no"]
            /\ UNCHANGED result
    /\ UNCHANGED <<musicState, voice, connLock, locals, effects>>
    /\ UNCHANGED formatting

\* Variant: the status entry is made (None) before the reply.
StatusNoEnsures(t) ==
    /\ pc[t] = "status_no"
    /\ stateLock' = NoThread
    /\ status' = MapInsert(status, call[t].server, None)
    /\ Finish(t, Outcome("NoSongPlaying"))
    /\ UNCHANGED <<queue, song_completion, voice, connLock, call, locals,
                   effects, snap>>
    /\ UNCHANGED formatting

\* line 520-524: "No song is currently playing", state lock held.
StatusNo(t) ==
    /\ pc[t] = "status_no"
    /\ stateLock' = NoThread
    /\ Finish(t, Outcome("NoSongPlaying"))
    /\ UNCHANGED <<musicState, voice, connLock, call, locals, effects, snap>>
    /\ UNCHANGED formatting

\* ------------------------------------------------------ completion driver
\* The queue checker thread: it takes the lowest due key of the index and
\* the first server under it, checks that the server still has a queue
\* entry, and pops the head of the queue into a new playing record that it
\* registers under its completion time; with an empty queue the status
\* becomes None.
DueKeys(now) == {k \in DOMAIN song_completion : k <= now}

Driver(now, required, seq) ==
    /\ seq => AllIdle
    /\ stateLock = NoThread
    /\ DueKeys(now) # {}
    /\ LET k == CHOOSE x \in DueKeys(now) : \A y \in DueKeys(now) : x <= y
           list == song_completion[k] IN
       IF list = <<>>
       THEN /\ song_completion' = MapRemove(song_completion, k)
            /\ UNCHANGED <<queue, status>>
       ELSE LET s == Head(list)
                rest == IF Tail(list) = <<>>
                        THEN MapRemove(song_completion, k)
                        ELSE [song_completion EXCEPT ![k] = Tail(list)] IN
            IF s \notin DOMAIN queue
            THEN /\ song_completion' = rest
                 /\ UNCHANGED <<queue, status>>
            ELSE IF queue[s] = <<>>
            THEN /\ song_completion' = rest
                 /\ status' = MapInsert(status, s, None)
                 /\ UNCHANGED queue
            ELSE LET req == Head(queue[s])
                     at == now + req.duration
                     old == IF at \in DOMAIN rest THEN rest[at] ELSE <<>> IN
                 /\ at <= MaxTime
                 /\ Len(old) < MaxPerKey
                 /\ song_completion' = MapInsert(rest, at, Append(old, s))
                 /\ status' = MapInsert(status, s,
                                  Some(MusicPlaying(req, required, now)))
                 /\ queue' = [queue EXCEPT ![s] = Tail(@)]
    /\ UNCHANGED <<voice, locks, pc, call, locals, result, effects, snap>>
    /\ UNCHANGED formatting

\* ------------------------------------------------------------------ next
JoinSteps(t) == JoinAlready(t) \/ JoinConnLock(t) \/ JoinConnect(t)

PlaySteps(t) ==
    \/ PlayNothing(t) \/ PlayConnLock(t) \/ PlayConnect(t)
    \/ \E ok \in BOOLEAN : PlayDownload(t, ok)
    \/ PlayLock2(t) \/ PlayEnqueue(t)

SkipSteps(t) ==
    SkipNo(t) \/ SkipReset(t) \/ SkipStop(t) \/ SkipRemove(t) \/ SkipVoted(t)

Step(t) ==
    \/ JoinSteps(t)
    \/ LeaveLock(t)
    \/ PlaySteps(t)
    \/ SkipSteps(t)
    \/ QueueNone(t)
    \/ StatusNo(t)
    \/ Return(t)

Command(t, S, U, seq) ==
    \/ \E op \in Ops : Unresolved(t, op, seq)
    \/ \E s \in S : Join(t, s, seq)
    \/ \E s \in S : Leave(t, s, seq)
    \/ \E s \in S, u \in U, url \in Urls, inv \in BOOLEAN :
           Play(t, s, u, url, inv, seq)
    \/ \E s \in S, u \in U : Skip(t, s, u, seq)
    \/ \E s \in S : QueueCmd(t, s, seq)
    \/ \E s \in S : StatusCmd(t, s, seq)

\* Commands of any user for one server, handled one at a time; the driver
\* runs between commands.
Next ==
    \/ Command(Handler, OneServer, Users, TRUE)
    \/ Step(Handler)
    \/ \E now \in Times, required \in 0..MaxVotesRequired :
           Driver(now, required, TRUE)

Spec == Init /\ [][Next]_vars

\* The join, leave and play commands of two users for both servers, handled
\* one at a time; the driver starts the requests it finds due at time 1.
NextServers ==
    \/ \E s \in Servers : Join(Handler, s, TRUE)
    \/ \E s \in Servers : Leave(Handler, s, TRUE)
    \/ \E s \in Servers, u \in TwoUsers, url \in Urls, inv \in BOOLEAN :
           Play(Handler, s, u, url, inv, TRUE)
    \/ JoinSteps(Handler)
    \/ LeaveLock(Handler)
    \/ PlaySteps(Handler)
    \/ Return(Handler)
    \/ Driver(1, 1, TRUE)

SpecServers == Init /\ [][NextServers]_vars

\* The join, play and skip commands for both servers, handled one at a
\* time, with the driver running at any moment at which the state lock is
\* free, also between two steps of a handler.  Requests are made by u1, skips
\* by u1 and u2; the URL "z" resolves to a song of duration 0; a new record
\* needs one vote.  The driver is a thread that loops for ever and gets the
\* state lock in the end (strong fairness); a handler that has started runs
\* on (weak fairness).
DriverUrls == {EmptyUrl, "a", "z"}

DriverPass == \E now \in Times : Driver(now, 1, FALSE)

HandlerSteps ==
    \/ JoinSteps(Handler)
    \/ PlaySteps(Handler)
    \/ SkipNo(Handler) \/ SkipReset(Handler) \/ SkipStop(Handler)
    \/ SkipRemove(Handler)

NextDriver ==
    \/ \E s \in Servers : Join(Handler, s, FALSE)
    \/ \E s \in Servers, url \in DriverUrls, inv \in BOOLEAN :
           Play(Handler, s, "u1", url, inv, FALSE)
    \/ \E s \in Servers, u \in TwoUsers : Skip(Handler, s, u, FALSE)
    \/ HandlerSteps
    \/ Return(Handler)
    \/ DriverPass

SpecDriver ==
    Init /\ [][NextDriver]_vars /\ SF_vars(DriverPass) /\ WF_vars(HandlerSteps)

\* Two handlers at once: the join, leave, play, queue, skip and status
\* commands for one server, each handler taking its steps at any moment, and
\* the driver at any moment at which the state lock is free.  Requests are
\* made by u1 with a URL, skips by u1 and u2; a new record needs two votes.
HandlerStep(t) ==
    \/ JoinSteps(t)
    \/ LeaveLock(t)
    \/ PlayConnLock(t) \/ PlayConnect(t)
    \/ \E ok \in BOOLEAN : PlayDownload(t, ok)
    \/ PlayLock2(t) \/ PlayEnqueue(t)
    \/ SkipSteps(t)
    \/ QueueNone(t)
    \/ StatusNo(t)
    \/ Return(t)

NextHandlers ==
    \/ \E t \in Threads : Join(t, "s1", FALSE)
    \/ \E t \in Threads : Leave(t, "s1", FALSE)
    \/ \E t \in Threads, inv \in BOOLEAN : Play(t, "s1", "u1", "a", inv, FALSE)
    \/ \E t \in Threads, u \in TwoUsers : Skip(t, "s1", u, FALSE)
    \/ \E t \in Threads : QueueCmd(t, "s1", FALSE)
    \/ \E t \in Threads : StatusCmd(t, "s1", FALSE)
    \/ \E t \in Threads : HandlerStep(t)
    \/ Driver(1, 2, FALSE)

SpecHandlers == Init /\ [][NextHandlers]_vars

\* --------------------------------------------------------- get_duration
\* The durations that get_duration is given, of any length up to MaxSecs;
\* the music state stays as constructed.
InitDuration ==
    /\ queue = EmptyMap
    /\ status = EmptyMap
    /\ song_completion = EmptyMap
    /\ voice = [s \in Servers |-> FALSE]
    /\ stateLock = NoThread
    /\ connLock = NoThread
    /\ pc = [t \in Threads |-> "idle"]
    /\ call = [t \in Threads |-> NoCall]
    /\ vote = [t \in Threads |-> "none"]
    /\ had_status = [t \in Threads |-> FALSE]
    /\ result = [t \in Threads |-> NoResult]
    /\ effects = [t \in Threads |-> NoEffects]
    /\ snap = [t \in Threads |-> NoSnap]
    /\ secs \in 0..MaxSecs
    /\ text = None

\* line 40-44, 259-261: the duration of a response is formatted.
format_duration ==
    /\ text = None
    /\ text' = Some(get_duration(secs))
    /\ UNCHANGED <<queue, status, song_completion, voice, stateLock, connLock,
                   pc, call, vote, had_status, result, effects, snap, secs>>

NextDuration == format_duration

SpecDuration == InitDuration /\ [][NextDuration]_vars

\* ---------------------------------------------------------------- claims
Quiet == \A t \in Threads : pc[t] \in {"idle", "done"}

Returned(t, op) == pc[t] = "done" /\ call[t].op = op

\* The number of places (key, position) at which s stands in the index.
Occurrences(index, s) ==
    Cardinality({p \in UNION {{<<k, i>> : i \in 1..Len(index[k])} :
                                  k \in DOMAIN index} :
                    index[p[1]][p[2]] = s})

WasPlaying(t) ==
    /\ call[t].server \in DOMAIN snap[t].status
    /\ snap[t].status[call[t].server] # None

Before(t) == snap[t].status[call[t].server][1]

SameState(t) ==
    /\ queue = snap[t].queue
    /\ status = snap[t].status
    /\ song_completion = snap[t].song_completion

ForcedStop(t) ==
    /\ effects[t].resets = 1
    /\ effects[t].stops = 1
    /\ effects[t].removals = 1
    /\ call[t].server \in DOMAIN status
    /\ status[call[t].server] = None

\* C1: between commands, a server has a queue entry if and only if it has a
\* status entry.
C1_QueueIffStatus ==
    Quiet => \A s \in Servers : (s \in DOMAIN queue) <=> (s \in DOMAIN status)

\* C2: a server stands at most once in the completion index, over all keys
\* and positions.
C2_AtMostOnce ==
    \A s \in Servers : Occurrences(song_completion, s) <= 1

\* C3: when a skip call returns after a forced stop, the server is
\* connected-idle and stands under no key of the completion index.
C3_ForcedStopClears ==
    \A t \in Threads :
        (Returned(t, "skip")
         /\ result[t].outcome \in {"VotePassed", "RequesterSkip"})
        => /\ call[t].server \in DOMAIN status
           /\ status[call[t].server] = None
           /\ Occurrences(song_completion, call[t].server) = 0

\* C4: a skip by a user who is neither the requester nor counted yet, with c
\* votes counted before: if c+1 < skip_votes_required the vote is registered
\* (the user is appended, the record stays, the tally c+1 is reported); if
\* c+1 >= skip_votes_required the vote passes and the forced stop is done.
C4_VoteThreshold ==
    \A t \in Threads :
        (Returned(t, "skip") /\ WasPlaying(t)
         /\ Before(t).req.requester # call[t].user
         /\ ~Contains(Before(t).skip_votes, call[t].user))
        => LET c == Len(Before(t).skip_votes)
               s == call[t].server IN
           IF c + 1 < Before(t).skip_votes_required
           THEN /\ result[t] = [outcome |-> "VoteRegistered", votes |-> c + 1,
                                required |-> Before(t).skip_votes_required]
                /\ s \in DOMAIN status
                /\ status[s] = Some([Before(t) EXCEPT !.skip_votes =
                                        Append(@, call[t].user)])
                /\ effects[t] = NoEffects
           ELSE /\ result[t].outcome = "VotePassed"
                /\ ForcedStop(t)

C4_Witness ==
    \E t \in Threads :
        /\ Returned(t, "skip") /\ WasPlaying(t)
        /\ Len(Before(t).skip_votes) = 1
        /\ Before(t).skip_votes_required = 2
        /\ result[t].outcome = "VotePassed"

\* C5: a skip by the requester of the playing request ends in a forced stop
\* done exactly once (one status reset, one gateway stop, one index removal)
\* whatever the tally, and the record's votes are as before until the reset.
C5_RequesterSkipOnce ==
    \A t \in Threads :
        /\ (Returned(t, "skip") /\ WasPlaying(t)
            /\ Before(t).req.requester = call[t].user)
           => /\ result[t].outcome = "RequesterSkip"
              /\ ForcedStop(t)
        /\ (call[t].op = "skip" /\ pc[t] = "skip_reset" /\ snap[t].taken
            /\ WasPlaying(t) /\ Before(t).req.requester = call[t].user)
           => /\ status = snap[t].status
              /\ effects[t] = NoEffects

C5_Witness ==
    \E t \in Threads :
        /\ Returned(t, "skip") /\ WasPlaying(t)
        /\ Before(t).req.requester = call[t].user
        /\ Len(Before(t).skip_votes) >= 1
        /\ result[t].outcome = "RequesterSkip"

\* C6: a skip by a non-requester already in the votes of the playing record
\* reports AlreadyVoted, changes neither the queue map, the status map nor
\* the completion index, and does not stop the gateway.
C6_AlreadyVotedNoChange ==
    \A t \in Threads :
        (Returned(t, "skip") /\ WasPlaying(t)
         /\ Before(t).req.requester # call[t].user
         /\ Contains(Before(t).skip_votes, call[t].user))
        => /\ result[t].outcome = "AlreadyVoted"
           /\ SameState(t)
           /\ effects[t] = NoEffects

C6_Witness ==
    \E t \in Threads :
        /\ Returned(t, "skip") /\ WasPlaying(t)
        /\ Contains(Before(t).skip_votes, call[t].user)
        /\ result[t].outcome = "AlreadyVoted"

\* C7: a skip for a server without a playing record (no status entry, or
\* None) reports NoSongPlaying, changes neither map nor the index, and does
\* not stop the gateway.
C7_NoSongNoChange ==
    \A t \in Threads :
        (Returned(t, "skip") /\ snap[t].taken /\ ~WasPlaying(t)
         /\ call[t].server \in Servers)
        => /\ result[t].outcome = "NoSongPlaying"
           /\ SameState(t)
           /\ effects[t] = NoEffects

C7_Witness ==
    \E t \in Threads :
        /\ Returned(t, "skip")
        /\ call[t].server \in DOMAIN snap[t].status
        /\ snap[t].status[call[t].server] = None
        /\ result[t].outcome = "NoSongPlaying"

\* C8: the votes of a playing record never hold the requester of its
\* request.
C8_RequesterNeverVotes ==
    \A s \in Servers :
        IsPlaying(s) =>
            ~Contains(status[s][1].skip_votes, status[s][1].req.requester)

C8_Witness ==
    \E t \in Threads :
        /\ call[t].op = "skip" /\ pc[t] = "skip_reset"
        /\ vote[t] = "VoterSkipped"
        /\ IsPlaying(call[t].server)
        /\ Len(status[call[t].server][1].skip_votes) >= 1

QueueBefore(t, s) == IF s \in DOMAIN snap[t].queue THEN snap[t].queue[s]
                                                   ELSE <<>>

\* C9: a play call whose URL resolves appends exactly its request at the end
\* of its server's queue, the earlier requests keeping their positions, and
\* leaves every other server's queue entry as it was.
C9_PlayAppends ==
    \A t \in Threads :
        (Returned(t, "play") /\ result[t].outcome = "Queued")
        => LET s == call[t].server IN
           /\ s \in DOMAIN queue
           /\ queue[s] = Append(QueueBefore(t, s),
                                MusicRequest(call[t].user, call[t].url))
           /\ \A o \in Servers \ {s} :
                 /\ (o \in DOMAIN queue) <=> (o \in DOMAIN snap[t].queue)
                 /\ o \in DOMAIN queue => queue[o] = snap[t].queue[o]

C9_Witness ==
    \E t \in Threads :
        /\ Returned(t, "play") /\ result[t].outcome = "Queued"
        /\ Len(QueueBefore(t, call[t].server)) = 1
        /\ QueueBefore(t, call[t].server)[1].requester # call[t].user

\* C10: a play whose URL resolves, on a server that a join has just made
\* connected-idle with an empty queue, leaves one request in the queue and
\* the server under the immediate key 0.
C10_PlayAfterJoinScheduled ==
    \A t \in Threads :
        (Returned(t, "play") /\ result[t].outcome = "Queued"
         /\ call[t].server \in DOMAIN snap[t].status
         /\ snap[t].status[call[t].server] = None
         /\ QueueBefore(t, call[t].server) = <<>>
         /\ Occurrences(snap[t].song_completion, call[t].server) = 0
         /\ voice[call[t].server])
        => /\ Len(queue[call[t].server]) = 1
           /\ 0 \in DOMAIN song_completion
           /\ Contains(song_completion[0], call[t].server)

\* The server of the call had neither a status entry nor a queue entry when
\* the call was entered.
WasAbsent(t) ==
    /\ snap[t].taken
    /\ call[t].server \notin DOMAIN snap[t].status
    /\ call[t].server \notin DOMAIN snap[t].queue

\* C11: a play call changes the completion index (it puts its server under
\* the immediate key 0) only if the server had no playing record before the
\* request was appended and the gateway reported a voice connection; a play
\* on a playing server, or on one not connected to voice, leaves the index
\* as it was.
C11_ImmediateOnlyIfIdleConnected ==
    \A t \in Threads :
        (Returned(t, "play") /\ snap[t].taken
         /\ song_completion # snap[t].song_completion)
        => /\ ~WasPlaying(t)
           /\ voice[call[t].server]
           /\ 0 \in DOMAIN song_completion
           /\ Contains(song_completion[0], call[t].server)

C11_Witness ==
    \E t \in Threads :
        /\ Returned(t, "play") /\ result[t].outcome = "Queued"
        /\ 0 \notin DOMAIN snap[t].song_completion
        /\ 0 \in DOMAIN song_completion
        /\ Contains(song_completion[0], call[t].server)

\* C12: a join for a server that has a status entry reports
\* AlreadyConnected, does not call the gateway's connect and leaves the
\* queue map, the status map (a playing record included) and the completion
\* index unchanged; a join that connects leaves a status entry, and only
\* leave removes a status entry, so the second of two joins with no leave
\* in between is rejected.
C12_JoinRejected ==
    /\ [](\A t \in Threads :
            /\ (Returned(t, "join") /\ snap[t].taken
                /\ call[t].server \in DOMAIN snap[t].status)
               => /\ result[t].outcome = "AlreadyConnected"
                  /\ SameState(t)
                  /\ effects[t] = NoEffects
            /\ (Returned(t, "join") /\ result[t].outcome = "Joined")
               => call[t].server \in DOMAIN status)
    /\ [][\A s \in Servers :
            (s \in DOMAIN status /\ s \notin DOMAIN status')
            => \E t \in Threads : call[t].op = "leave" /\ call[t].server = s
         ]_vars

C12_Witness ==
    \E t \in Threads :
        /\ Returned(t, "join") /\ WasPlaying(t)
        /\ result[t].outcome = "AlreadyConnected"

\* C13: when leave returns, its server has no status entry and no queue
\* entry, whatever they held before; a queue call for a server without a
\* queue entry reports EmptyQueue and changes nothing; a leave for a server
\* that had neither entry leaves the queue map, the status map and the
\* completion index unchanged.
C13_LeaveTearsDown ==
    \A t \in Threads :
        /\ (Returned(t, "leave") /\ call[t].server \in Servers)
           => /\ call[t].server \notin DOMAIN status
              /\ call[t].server \notin DOMAIN queue
              /\ result[t].outcome = "Left"
        /\ (Returned(t, "leave") /\ call[t].server \in Servers /\ WasAbsent(t))
           => SameState(t)
        /\ (Returned(t, "queue") /\ call[t].server \in Servers
            /\ snap[t].taken /\ call[t].server \notin DOMAIN snap[t].queue)
           => /\ result[t].outcome = "EmptyQueue"
              /\ SameState(t)

C13_Witness ==
    \E t \in Threads :
        /\ Returned(t, "leave") /\ WasPlaying(t)
        /\ Len(QueueBefore(t, call[t].server)) >= 1
        /\ call[t].server \notin DOMAIN queue

\* C14: when leave returns, its server stands under no key of the completion
\* index (the teardown drops the server's membership of the index).
C14_LeaveClearsIndex ==
    \A t \in Threads :
        (Returned(t, "leave") /\ call[t].server \in Servers)
        => Occurrences(song_completion, call[t].server) = 0

\* C15: a play call with no URL, for a server without a status entry, by a
\* user who is in no voice channel reports NothingToDo, leaves the queue
\* map, the status map and the completion index unchanged and calls the
\* gateway neither to connect nor to stop.
C15_NothingToDo ==
    \A t \in Threads :
        (Returned(t, "play") /\ snap[t].taken
         /\ call[t].server \in Servers
         /\ call[t].url = EmptyUrl /\ ~call[t].in_voice
         /\ call[t].server \notin DOMAIN snap[t].status)
        => /\ result[t].outcome = "NothingToDo"
           /\ SameState(t)
           /\ effects[t] = NoEffects

C15_Witness ==
    \E t \in Threads :
        /\ Returned(t, "play") /\ result[t].outcome = "NothingToDo"
        /\ call[t].server \in DOMAIN snap[t].queue

\* The handler is at a blocking external call: the gateway's connect (join,
\* play) or stop (skip), the download of the song, or the sending of a reply
\* before an early return.
InExternalCall(t) ==
    pc[t] \in {"join_connect", "play_connect", "play_download", "skip_stop",
               "join_already", "play_nothing", "skip_no", "queue_none",
               "status_no"}

\* C16: a handler that is at a blocking external call (gateway connect or
\* stop, song resolution, outbound message) does not own the state lock.
C16_NoLockInExternalCall ==
    \A t \in Threads : InExternalCall(t) => stateLock # t

QueueOf(q, s) == IF s \in DOMAIN q THEN q[s] ELSE <<>>

\* This step puts a request at the end of the queue of s.
Appended(s) ==
    /\ Len(QueueOf(queue', s)) = Len(QueueOf(queue, s)) + 1
    /\ SubSeq(QueueOf(queue', s), 1, Len(QueueOf(queue, s))) = QueueOf(queue, s)

\* This step takes the head of the queue of s into the playing record.
Popped(s) ==
    /\ QueueOf(queue, s) # <<>>
    /\ QueueOf(queue', s) = Tail(QueueOf(queue, s))
    /\ IsPlaying(s)'
    /\ status'[s][1].req = Head(QueueOf(queue, s))

\* This step gives s a playing record it did not have.
NewRecord(s) ==
    /\ IsPlaying(s)'
    /\ \/ ~IsPlaying(s)
       \/ status'[s][1].req # status[s][1].req
       \/ status'[s][1].started_at # status[s][1].started_at

\* C17: the requests of a server start in the order of their enqueueing: a
\* step changes a server's queue only by appending at its end, by taking its
\* head into the playing record, or by discarding the entry, and a new
\* playing record is always the head of the queue.
C17_Fifo ==
    [][\A s \in Servers :
          /\ QueueOf(queue', s) # QueueOf(queue, s)
             => Appended(s) \/ Popped(s) \/ s \notin DOMAIN queue'
          /\ NewRecord(s) => Popped(s)
      ]_vars

C17_Witness ==
    /\ IsPlaying("s1")
    /\ status["s1"][1].req.url = "z"
    /\ QueueOf(queue, "s1") = <<MusicRequest("u1", "a")>>
    /\ 1 \in DOMAIN song_completion
    /\ Contains(song_completion[1], "s1")

\* C18: when play appends a request for a server that is connected to voice
\* and has no playing record, the server eventually has a playing record.
C18_IdleItemStarts ==
    \A s \in Servers :
        [](\A t \in Threads :
              (pc[t] = "play_conn2" /\ call[t].server = s
               /\ ~IsPlaying(s) /\ voice[s])
              => <>IsPlaying(s))

\* C19: when a skip returns after a forced stop and the server's queue is
\* not empty, the server eventually has a playing record again.
C19_ForcedStopAdvances ==
    \A s \in Servers :
        [](\A t \in Threads :
              (Returned(t, "skip") /\ call[t].server = s
               /\ result[t].outcome \in {"VotePassed", "RequesterSkip"}
               /\ QueueOf(queue, s) # <<>>)
              => <>IsPlaying(s))

C21_ReadOnly ==
    \A t \in Threads :
        ((Returned(t, "queue") \/ Returned(t, "status")) /\ snap[t].taken)
        => /\ SameState(t)
           /\ effects[t] = NoEffects

C21_Witness ==
    \E t \in Threads :
        /\ Returned(t, "status") /\ result[t].outcome = "Playing"
        /\ WasPlaying(t)
        /\ Len(Before(t).skip_votes) >= 1
        /\ QueueBefore(t, call[t].server) # <<>>

\* C22: a play call that registers its server under the immediate key leaves
\* every other server as often in the completion index as it stood before.
C22_OthersKeepMembership ==
    \A t \in Threads :
        (Returned(t, "play") /\ snap[t].taken /\ call[t].server \in Servers)
        => \A o \in Servers \ {call[t].server} :
               Occurrences(song_completion, o)
                   = Occurrences(snap[t].song_completion, o)

\* C25: a play call whose song resolution fails leaves the queue map, the
\* status map and the completion index as they were before the call.
C25_FailedDownloadNoChange ==
    \A t \in Threads :
        (Returned(t, "play") /\ snap[t].taken
         /\ result[t].outcome = "DownloadFailed")
        => SameState(t)

NoDuplicates(seq) ==
    \A i, j \in 1..Len(seq) : seq[i] = seq[j] => i = j

ReadBack(str) ==
    (str.minutes[1] * 10 + str.minutes[2]) * 60
    + str.seconds[1] * 10 + str.seconds[2]

\* C28: the string made by get_duration, read back as minutes*60 + seconds,
\* gives the duration it was made of.
C28_DurationRoundTrip ==
    text # None => ReadBack(text[1]) = secs

\* C23: the record that a skip is about to reset is the one its vote check
\* ran against: it holds the voter's vote when the vote passed, and is the
\* voter's own request when the requester skipped.
C23_ResetSameRecord ==
    \A t \in Threads :
        (pc[t] = "skip_reset" /\ IsPlaying(call[t].server))
        => LET current == status[call[t].server][1] IN
           /\ vote[t] = "Passed" => Contains(current.skip_votes, call[t].user)
           /\ vote[t] = "VoterSkipped" => current.req.requester = call[t].user

\* C24: a skip call whose vote was recorded without reaching the threshold
\* reports VoteRegistered, never NoSongPlaying.
C24_VotedReportsTally ==
    \A t \in Threads :
        (Returned(t, "skip") /\ vote[t] = "Voted")
        => result[t].outcome = "VoteRegistered"

\* The lock that the next step of the handler has to take.
Wants(t) ==
    IF pc[t] \in {"join_conn", "play_conn", "play_conn2", "skip_stop"}
    THEN "conn"
    ELSE IF pc[t] \in {"leave_lock", "play_lock2", "skip_reset",
                       "skip_remove", "skip_voted"}
    THEN "state"
    ELSE "nothing"

HolderOf(lock) == IF lock = "conn" THEN connLock
                  ELSE IF lock = "state" THEN stateLock
                  ELSE NoThread

\* t waits for a lock that u holds.
WaitsFor(t, u) == u # t /\ HolderOf(Wants(t)) = u

\* C26: no set of handlers has each member waiting for a lock held by
\* another member; a handler holding both locks is at a gateway connect
\* reached with the state lock taken first: the connection lock is taken and
\* kept only by a handler that holds the state lock, and the state lock is
\* never taken by a handler that holds the connection lock.
C26_NoDeadlock ==
    /\ [](/\ \A D \in (SUBSET Threads) \ {{}} :
                \E t \in D : ~\E u \in D : WaitsFor(t, u)
          /\ \A t \in Threads :
                (stateLock = t /\ connLock = t)
                => pc[t] \in {"join_connect", "play_connect"})
    /\ [][\A t \in Threads :
            /\ (connLock' = t /\ connLock # t)
               => stateLock = t /\ stateLock' = t
            /\ (stateLock' = t /\ stateLock # t)
               => connLock # t /\ connLock' # t
         ]_vars

C26_Witness ==
    \E t, u \in Threads :
        /\ pc[t] = "join_connect" /\ stateLock = t /\ connLock = t
        /\ pc[u] = "leave_lock"
        /\ WaitsFor(u, t)

====
